---- MODULE Spec2Model ----
(***************************************************************************)
(* Model of rendy's command pools (command/src/pool.rs).                   *)
(*                                                                         *)
(* CommandPool wraps one raw backend pool and tags the buffers it          *)
(* allocates; OwningCommandPool wraps a CommandPool, keeps the raw buffer  *)
(* handles in `buffers` and lends them one at a time through the cursor    *)
(* `next`.  The backend (gfx_hal::pool::RawCommandPool, gfx_hal::Device)   *)
(* is outside the crate: it is modelled as the record `backend`, which     *)
(* logs every call the pool makes and tracks the handles it has handed out *)
(* and not yet got back.                                                   *)
(***************************************************************************)
EXTENDS Integers, Sequences, FiniteSets, TLC

\* ------------------------------------------------------------------ bounds

\* The backend hands out at most MaxHandles raw buffer handles.
MaxHandles == 2
\* Before it is disposed of, at most MaxCalls backend calls are made on the raw
\* pool of an OwningCommandPool and at most MaxPoolCalls on that of a CommandPool.
MaxCalls == 3
MaxPoolCalls == 2
\* The largest `count` a caller passes to reserve / allocate_buffers.
MaxCount == 2

\* ------------------------------------------------- capability, level, reset

\* gfx_hal::QueueType, and the marker types of capability.rs.
QueueTypes == {"Transfer", "Compute", "Graphics", "General"}

\* A capability is a run-time gfx_hal::QueueType value or a zero-sized marker type.
ValueCapability(q) == [repr |-> "QueueType", cap |-> q]

MarkerCapability(m) == [repr |-> "Marker", cap |-> m]

Capabilities ==
    {ValueCapability(q) : q \in QueueTypes} \cup {MarkerCapability(m) : m \in QueueTypes}

\* The type parameter C a capability value inhabits.
CapabilityType(c) == IF c.repr = "QueueType" THEN "QueueType" ELSE c.cap

\* The queue types whose commands a queue of type q can record.
SupportedBy(q) ==
    CASE q = "General"  -> {"Transfer", "Compute", "Graphics", "General"}
      [] q = "Graphics" -> {"Transfer", "Graphics"}
      [] q = "Compute"  -> {"Transfer", "Compute"}
      [] q = "Transfer" -> {"Transfer"}

\* Capability::into_queue_type
into_queue_type(c) == ValueCapability(c.cap)

\* `C: Supports<U>` is implemented: for QueueType the test happens at run time,
\* for a marker only the supported markers have an impl at all.
HasSupportsImpl(c, u) == c.repr = "QueueType" \/ u \in SupportedBy(c.cap)

\* Supports<U>::supports: Some(U) or None.
supports(c, u) == IF u \in SupportedBy(c.cap) THEN <<MarkerCapability(u)>> ELSE <<>>

\* gfx_hal::queue::QueueFamilyId values the pools are created for.
Families == {0, 1}

Levels == {"PrimaryLevel", "SecondaryLevel"}

\* Level::level, the gfx_hal::command::RawLevel of a level marker.
RawLevel(l) == IF l = "PrimaryLevel" THEN "Primary" ELSE "Secondary"

Resets == {"IndividualReset", "NoIndividualReset"}

\* ----------------------------------------------------------------- backend

\* The raw pool handle the caller wraps.
RawPool == "raw_pool"

NoLevel == "-"

\* The lifecycle states of a command buffer.
States == {"Initial", "Recording", "Executable", "Pending", "Invalid"}

\* The backend's view of every handle it can hand out, before it has.
NoStates == [h \in 1..MaxHandles |-> "Unallocated"]

\* gfx_hal::pool::RawCommandPool::allocate: `count` fresh handles.
RawAllocate(b, count, lvl) ==
    LET hs == [i \in 1..count |-> b.fresh + i] IN
    [b EXCEPT !.calls = Append(@, [op |-> "allocate", count |-> count,
                                   level |-> lvl, handles |-> hs]),
              !.fresh = @ + count,
              !.live = @ \cup {hs[i] : i \in 1..count},
              !.state = [h \in 1..MaxHandles |->
                            IF h \in {hs[i] : i \in 1..count} THEN "Initial" ELSE @[h]]]

\* gfx_hal::pool::RawCommandPool::free
RawFree(b, hs) ==
    [b EXCEPT !.calls = Append(@, [op |-> "free", count |-> Len(hs),
                                   level |-> NoLevel, handles |-> hs]),
              !.live = @ \ {hs[i] : i \in 1..Len(hs)},
              !.state = [h \in 1..MaxHandles |->
                            IF h \in {hs[i] : i \in 1..Len(hs)} THEN "Freed" ELSE @[h]]]

\* gfx_hal::pool::RawCommandPool::reset: every buffer of the pool is Initial again.
RawReset(b) ==
    [b EXCEPT !.calls = Append(@, [op |-> "reset", count |-> 0,
                                   level |-> NoLevel, handles |-> <<>>]),
              !.state = [h \in 1..MaxHandles |->
                            IF h \in b.live THEN "Initial" ELSE @[h]]]

\* gfx_hal::Device::destroy_command_pool
RawDestroy(b) ==
    [b EXCEPT !.calls = Append(@, [op |-> "destroy", count |-> 0,
                                   level |-> NoLevel, handles |-> <<>>]),
              !.destroyed = TRUE]

\* The handles the latest backend call returned or took.
LastHandles(b) == b.calls[Len(b.calls)].handles

\* The number of backend calls of one kind made so far.
CallCount(b, op) == Cardinality({i \in 1..Len(b.calls) : b.calls[i].op = op})

\* ------------------------------------------------------------------- state

VARIABLES
    kind,      \* which wrapper the caller holds: "CommandPool", "OwningCommandPool", "Disposed", "Panicked"
    pool,      \* the CommandPool (the `inner` of the owning wrapper): raw, capability, reset, family, relevant
    level,     \* OwningCommandPool.level
    buffers,   \* OwningCommandPool.buffers
    next,      \* OwningCommandPool.next
    backend,   \* the raw pool on the backend side
    held,      \* the CommandBuffers the caller got from allocate_buffers and still owns
    lastOp,    \* the latest call on the pool: its name, argument, result and returned buffers
    lent,      \* the slot indices acquire_buffer handed out since the latest reset
    prevLent   \* how many acquire_buffer calls preceded the latest reset since the one before

vars == <<kind, pool, level, buffers, next, backend, held, lastOp, lent, prevLent>>

Op(name, arg, res, ret) == [name |-> name, arg |-> arg, res |-> res, ret |-> ret]

\* The argument recorded for with_capability::<U>: the capability self had and U.
Narrow(c, u) == [from |-> c, to |-> u]

\* The argument recorded for a with_value_capability that follows no narrowing.
NoNarrow == [from |-> [repr |-> "-", cap |-> "-"], to |-> "-"]

\* The argument recorded for with_value_capability: the successful
\* with_capability call that produced self, when it is the call just before.
NarrowBefore(op) ==
    IF /\ op.name \in {"CommandPool::with_capability", "OwningCommandPool::with_capability"}
       /\ op.res = "Ok"
    THEN op.arg ELSE NoNarrow

\* CommandBuffer::from_raw
CommandBuffer(raw, capability, state, lvl, reset, family) ==
    [raw |-> raw, capability |-> capability, state |-> state,
     level |-> lvl, reset |-> reset, family |-> family]

\* CommandPool::from_raw
from_raw(raw, capability, reset, family) ==
    [raw |-> raw, capability |-> capability, reset |-> reset,
     family |-> family, relevant |-> TRUE]

\* A raw pool no call has been made on yet.
FreshBackend ==
    [calls |-> <<>>, fresh |-> 0, live |-> {}, destroyed |-> FALSE, state |-> NoStates]

\* The caller holds a CommandPool just wrapped by from_raw.
InitPool ==
    /\ kind = "CommandPool"
    /\ \E c \in Capabilities, r \in Resets, f \in Families :
           pool = from_raw(RawPool, c, r, f)
    /\ level = "PrimaryLevel"
    /\ buffers = <<>>
    /\ next = 0
    /\ backend = FreshBackend
    /\ held = {}
    /\ lastOp = Op("CommandPool::from_raw", 0, "-", <<>>)
    /\ lent = {}
    /\ prevLent = 0

\* The raw pool of the CommandPool has room for n more calls and k more handles.
Room(n, k) == Len(backend.calls) + n <= MaxPoolCalls /\ backend.fresh + k <= MaxHandles

\* ------------------------------------------------------------- CommandPool

\* allocate_buffers wrapping the handles as buffers that are already recording.
WrapAllocated_StartsRecording(p, l, hs) ==
    [i \in 1..Len(hs) |->
        CommandBuffer(hs[i], p.capability, "Recording", l, p.reset, p.family)]

\* allocate_buffers tagging the buffers with the widened capability.
WrapAllocated_WidensCapability(p, l, hs) ==
    [i \in 1..Len(hs) |->
        CommandBuffer(hs[i], into_queue_type(p.capability), "Initial", l, p.reset, p.family)]

\* The buffers allocate_buffers wraps around the handles the backend returned.
WrapAllocated(p, l, hs) ==
    [i \in 1..Len(hs) |->
        CommandBuffer(hs[i], p.capability, "Initial", l, p.reset, p.family)]

\* CommandPool::allocate_buffers
allocate_buffers(l, count) ==
    /\ kind = "CommandPool"
    /\ Room(1, count)
    /\ backend' = RawAllocate(backend, count, RawLevel(l))
    /\ LET bs == WrapAllocated(pool, l, LastHandles(backend')) IN
        /\ held' = held \cup {bs[i] : i \in 1..Len(bs)}
        /\ lastOp' = Op("CommandPool::allocate_buffers",
                        [level |-> l, count |-> count], "-", bs)
    /\ UNCHANGED <<kind, pool, level, buffers, next, lent, prevLent>>

\* The states that implement Resettable.
Resettable == {"Initial", "Executable", "Pending", "Invalid"}

\* The buffers of bs in the order the caller's iterator yields them.
RECURSIVE InOrder(_)
InOrder(bs) ==
    IF bs = {} THEN <<>>
    ELSE LET b == CHOOSE x \in bs : \A y \in bs : x.raw <= y.raw IN
         <<b>> \o InOrder(bs \ {b})

\* CommandBuffer::into_raw over the iterator.
IntoRaw(bs) == [i \in 1..Len(bs) |-> bs[i].raw]

\* free_buffers taking buffers in any state.
Freeable_AnyState(p, bs) ==
    /\ \A b \in bs : /\ CapabilityType(b.capability) = CapabilityType(p.capability)
                     /\ b.reset = p.reset
    /\ \A b1, b2 \in bs : b1.state = b2.state /\ b1.level = b2.level

\* The buffers one free_buffers call type-checks for: one state type and one
\* level type for the whole iterator, and the pool's own C and R.
Freeable(p, bs) ==
    /\ \A b \in bs : /\ b.state \in Resettable
                     /\ CapabilityType(b.capability) = CapabilityType(p.capability)
                     /\ b.reset = p.reset
    /\ \A b1, b2 \in bs : b1.state = b2.state /\ b1.level = b2.level

\* CommandPool::free_buffers
free_buffers(bs) ==
    /\ kind = "CommandPool"
    /\ Room(1, 0)
    /\ Freeable(pool, bs)
    /\ bs \subseteq held
    /\ backend' = RawFree(backend, IntoRaw(InOrder(bs)))
    /\ held' = held \ bs
    /\ lastOp' = Op("CommandPool::free_buffers", Cardinality(bs), "-", <<>>)
    /\ UNCHANGED <<kind, pool, level, buffers, next, lent, prevLent>>

\* CommandPool::reset
CommandPool_reset(b) == RawReset(b)

reset ==
    /\ kind = "CommandPool"
    /\ Room(1, 0)
    /\ backend' = CommandPool_reset(backend)
    /\ lastOp' = Op("CommandPool::reset", 0, "-", <<>>)
    /\ UNCHANGED <<kind, pool, level, buffers, next, held, lent, prevLent>>

\* dispose that leaves the raw pool alone while the backend still has buffers of it.
CommandPool_dispose_Checked(b) == IF b.live = {} THEN RawDestroy(b) ELSE b

\* CommandPool::dispose on the backend side: the device destroys the raw pool.
CommandPool_dispose(b) == RawDestroy(b)

dispose ==
    /\ kind = "CommandPool"
    /\ backend' = CommandPool_dispose(backend)
    /\ pool' = [pool EXCEPT !.relevant = FALSE]
    /\ kind' = "Disposed"
    /\ lastOp' = Op("CommandPool::dispose", 0, "-", <<>>)
    /\ UNCHANGED <<level, buffers, next, held, lent, prevLent>>

\* with_value_capability that moves the capability over without widening it.
CommandPool_with_value_capability_KeepsTag(p) ==
    [raw |-> p.raw, capability |-> p.capability,
     reset |-> p.reset, family |-> p.family, relevant |-> p.relevant]

\* CommandPool::with_value_capability
CommandPool_with_value_capability(p) ==
    [raw |-> p.raw, capability |-> into_queue_type(p.capability),
     reset |-> p.reset, family |-> p.family, relevant |-> p.relevant]

\* CommandPool::with_capability: Ok(narrowed pool) or Err(self).
CommandPool_with_capability(p, u) ==
    LET capability == supports(p.capability, u) IN
    IF capability # <<>>
    THEN [res |-> "Ok",
          pool |-> [raw |-> p.raw, capability |-> capability[1],
                    reset |-> p.reset, family |-> p.family, relevant |-> p.relevant]]
    ELSE [res |-> "Err", pool |-> p]

with_value_capability ==
    /\ kind = "CommandPool"
    /\ pool' = CommandPool_with_value_capability(pool)
    /\ lastOp' = Op("CommandPool::with_value_capability", NarrowBefore(lastOp), "-", <<>>)
    /\ UNCHANGED <<kind, level, buffers, next, backend, held, lent, prevLent>>

with_capability(u) ==
    /\ kind = "CommandPool"
    /\ HasSupportsImpl(pool.capability, u)
    /\ LET r == CommandPool_with_capability(pool, u) IN
        /\ pool' = r.pool
        /\ lastOp' = Op("CommandPool::with_capability", Narrow(pool.capability, u), r.res, <<>>)
    /\ UNCHANGED <<kind, level, buffers, next, backend, held, lent, prevLent>>

\* ------------------------------------------------------- OwningCommandPool

\* The OwningCommandPool value the variables hold.
Self == [inner |-> pool, level |-> level, buffers |-> buffers, next |-> next]

\* The variables take the fields of the OwningCommandPool value s.
Becomes(s) ==
    /\ pool' = s.inner
    /\ level' = s.level
    /\ buffers' = s.buffers
    /\ next' = s.next

\* OwningCommandPool::from_inner
OwningCommandPool_from_inner(inner, l) ==
    [inner |-> inner, level |-> l, buffers |-> <<>>, next |-> 0]

\* The caller holds an OwningCommandPool just wrapped by from_inner around a
\* CommandPool<B, C> (whose reset policy is the default, NoIndividualReset).
InitOwning ==
    /\ kind = "OwningCommandPool"
    /\ \E c \in Capabilities, f \in Families, l \in Levels :
         LET s == OwningCommandPool_from_inner(
                      from_raw(RawPool, c, "NoIndividualReset", f), l) IN
            /\ pool = s.inner
            /\ level = s.level
            /\ buffers = s.buffers
            /\ next = s.next
    /\ backend = FreshBackend
    /\ held = {}
    /\ lastOp = Op("OwningCommandPool::from_inner", 0, "-", <<>>)
    /\ lent = {}
    /\ prevLent = 0

\* reserve's test with the cursor forgotten: `count >= self.buffers.len()`.
NotEnoughUnused_ForgetsCursor(n, count, len) == count >= len

\* reserve's test `total >= self.buffers.len()`, total being `self.next + count`
NotEnoughUnused(n, count, len) == n + count >= len

\* reserve's `add` with the cursor forgotten: `count - self.buffers.len()`, saturating.
Shortfall_ForgetsCursor(n, count, len) == IF count >= len THEN count - len ELSE 0

\* reserve's `add` taken to be the whole `count`, whatever the store already holds.
Shortfall_WholeCount(n, count, len) == count

\* reserve's `add`, `total - self.buffers.len()`
Shortfall(n, count, len) == (n + count) - len

\* OwningCommandPool::reserve
OwningCommandPool_reserve(self, count, b) ==
    IF NotEnoughUnused(self.next, count, Len(self.buffers))
    THEN LET add == Shortfall(self.next, count, Len(self.buffers))
             b2 == RawAllocate(b, add, RawLevel(self.level))
         IN [self |-> [self EXCEPT !.buffers = @ \o LastHandles(b2)], backend |-> b2]
    ELSE [self |-> self, backend |-> b]

\* The raw pool of the OwningCommandPool can serve what the call asked of it.
Fits(b) == Len(b.calls) <= MaxCalls /\ b.fresh <= MaxHandles

reserve(count) ==
    /\ kind = "OwningCommandPool"
    /\ LET r == OwningCommandPool_reserve(Self, count, backend) IN
        /\ Fits(r.backend)
        /\ Becomes(r.self)
        /\ backend' = r.backend
    /\ lastOp' = Op("OwningCommandPool::reserve", count, "-", <<>>)
    /\ UNCHANGED <<kind, held, lent, prevLent>>

\* acquire_buffer indexing `self.buffers[self.next]` after the increment.
AcquiredSlot_OffByOne(n) == n

\* The slot acquire_buffer borrows after `self.next += 1`.
AcquiredSlot(n) == n - 1

\* acquire_buffer that lends the slot at the cursor and leaves the cursor there.
OwningCommandPool_acquire_buffer_NoAdvance(self, b) ==
    LET r == OwningCommandPool_reserve(self, 1, b)
        s == r.self
        i == s.next
    IN IF i >= 0 /\ i < Len(s.buffers)
       THEN [self |-> s, backend |-> r.backend, panic |-> FALSE, slot |-> i,
             ret |-> <<CommandBuffer(s.buffers[i + 1], s.inner.capability, "Initial",
                                     s.level, s.inner.reset, s.inner.family)>>]
       ELSE [self |-> s, backend |-> r.backend, panic |-> TRUE, slot |-> i, ret |-> <<>>]

\* OwningCommandPool::acquire_buffer; indexing past the store panics.
OwningCommandPool_acquire_buffer(self, b) ==
    LET r == OwningCommandPool_reserve(self, 1, b)
        s == [r.self EXCEPT !.next = @ + 1]
        i == AcquiredSlot(s.next)
    IN IF i >= 0 /\ i < Len(s.buffers)
       THEN [self |-> s, backend |-> r.backend, panic |-> FALSE, slot |-> i,
             ret |-> <<CommandBuffer(s.buffers[i + 1], s.inner.capability, "Initial",
                                     s.level, s.inner.reset, s.inner.family)>>]
       ELSE [self |-> s, backend |-> r.backend, panic |-> TRUE, slot |-> i, ret |-> <<>>]

acquire_buffer ==
    /\ kind = "OwningCommandPool"
    /\ LET r == OwningCommandPool_acquire_buffer(Self, backend) IN
        /\ Fits(r.backend)
        /\ Becomes(r.self)
        /\ backend' = r.backend
        /\ kind' = IF r.panic THEN "Panicked" ELSE kind
        /\ lastOp' = Op("OwningCommandPool::acquire_buffer", r.slot,
                        IF r.panic THEN "panic" ELSE "-", r.ret)
        /\ lent' = IF r.panic THEN lent ELSE lent \cup {r.slot}
    /\ UNCHANGED <<held, prevLent>>

\* reset that rewinds the cursor without `self.inner.reset()`.
OwningCommandPool_reset_NoBackendReset(self, b) ==
    [self |-> [self EXCEPT !.next = 0], backend |-> b]

\* reset without `self.next = 0`.
OwningCommandPool_reset_NoRewind(self, b) ==
    [self |-> self, backend |-> CommandPool_reset(b)]

\* OwningCommandPool::reset
OwningCommandPool_reset(self, b) ==
    [self |-> [self EXCEPT !.next = 0], backend |-> CommandPool_reset(b)]

owning_reset ==
    /\ kind = "OwningCommandPool"
    /\ LET r == OwningCommandPool_reset(Self, backend) IN
        /\ Fits(r.backend)
        /\ Becomes(r.self)
        /\ backend' = r.backend
    /\ lastOp' = Op("OwningCommandPool::reset", 0, "-", <<>>)
    /\ lent' = {}
    /\ prevLent' = Cardinality(lent)
    /\ UNCHANGED <<kind, held>>

\* dispose that destroys the raw pool before it frees the stored handles.
OwningCommandPool_dispose_DestroyFirst(self, b) ==
    LET r == OwningCommandPool_reset(self, b)
        b2 == CommandPool_dispose(r.backend)
    IN [self |-> [r.self EXCEPT !.inner.relevant = FALSE],
        backend |-> IF r.self.buffers # <<>> THEN RawFree(b2, r.self.buffers) ELSE b2]

\* dispose that hands the raw pool to the device without freeing the store.
OwningCommandPool_dispose_NoFree(self, b) ==
    LET r == OwningCommandPool_reset(self, b)
    IN [self |-> [r.self EXCEPT !.inner.relevant = FALSE],
        backend |-> CommandPool_dispose(r.backend)]

\* OwningCommandPool::dispose
OwningCommandPool_dispose(self, b) ==
    LET r == OwningCommandPool_reset(self, b)
        b2 == IF r.self.buffers # <<>> THEN RawFree(r.backend, r.self.buffers)
              ELSE r.backend
    IN [self |-> [r.self EXCEPT !.inner.relevant = FALSE],
        backend |-> CommandPool_dispose(b2)]

owning_dispose ==
    /\ kind = "OwningCommandPool"
    /\ LET r == OwningCommandPool_dispose(Self, backend) IN
        /\ Becomes(r.self)
        /\ backend' = r.backend
    /\ kind' = "Disposed"
    /\ lastOp' = Op("OwningCommandPool::dispose", 0, "-", <<>>)
    /\ lent' = {}
    /\ prevLent' = Cardinality(lent)
    /\ UNCHANGED held

\* with_value_capability that rebuilds the wrapper with a rewound cursor.
OwningCommandPool_with_value_capability_Rewinds(self) ==
    [inner |-> CommandPool_with_value_capability(self.inner), level |-> self.level,
     buffers |-> self.buffers, next |-> 0]

\* OwningCommandPool::with_value_capability
OwningCommandPool_with_value_capability(self) ==
    [inner |-> CommandPool_with_value_capability(self.inner), level |-> self.level,
     buffers |-> self.buffers, next |-> self.next]

owning_with_value_capability ==
    /\ kind = "OwningCommandPool"
    /\ Becomes(OwningCommandPool_with_value_capability(Self))
    /\ lastOp' = Op("OwningCommandPool::with_value_capability", NarrowBefore(lastOp), "-", <<>>)
    /\ UNCHANGED <<kind, backend, held, lent, prevLent>>

\* with_capability whose Err arm rebuilds the wrapper with a rewound cursor.
OwningCommandPool_with_capability_ErrRewinds(self, u) ==
    LET r == CommandPool_with_capability(self.inner, u) IN
    [res |-> r.res,
     self |-> [inner |-> r.pool, level |-> self.level, buffers |-> self.buffers,
               next |-> IF r.res = "Ok" THEN self.next ELSE 0]]

\* OwningCommandPool::with_capability: both arms rebuild the wrapper around
\* the pool the inner call returned.
OwningCommandPool_with_capability(self, u) ==
    LET r == CommandPool_with_capability(self.inner, u) IN
    [res |-> r.res,
     self |-> [inner |-> r.pool, level |-> self.level,
               buffers |-> self.buffers, next |-> self.next]]

owning_with_capability(u) ==
    /\ kind = "OwningCommandPool"
    /\ HasSupportsImpl(pool.capability, u)
    /\ LET r == OwningCommandPool_with_capability(Self, u) IN
        /\ Becomes(r.self)
        /\ lastOp' = Op("OwningCommandPool::with_capability", Narrow(pool.capability, u), r.res, <<>>)
    /\ UNCHANGED <<kind, backend, held, lent, prevLent>>

\* ------------------------------------------------------------ CommandBuffer

\* The handles the caller holds a CommandBuffer for: the buffers allocated from
\* a CommandPool and not freed, the slots borrowed from an OwningCommandPool
\* since its last reset.
HeldHandles ==
    IF kind = "CommandPool" THEN {b.raw : b \in held}
    ELSE IF kind = "OwningCommandPool" THEN {buffers[i + 1] : i \in lent}
    ELSE {}

\* The state the type of the caller's CommandBuffer for h carries.
TypeState(h) ==
    IF kind = "CommandPool" THEN (CHOOSE b \in held : b.raw = h).state
    ELSE backend.state[h]

\* The reset policy the type of the caller's CommandBuffer for h carries.
ResetOf(h) ==
    IF kind = "CommandPool" THEN (CHOOSE b \in held : b.raw = h).reset
    ELSE pool.reset

\* The caller may use its CommandBuffer for h: the pool is alive and the type
\* of the buffer says what the backend holds.
Usable(h) ==
    /\ h \in HeldHandles
    /\ ~backend.destroyed
    /\ TypeState(h) = backend.state[h]

\* The buffer for h moves to state st, in its type and in the backend.
Transition(name, h, st) ==
    /\ backend' = [backend EXCEPT !.state[h] = st]
    /\ held' = {IF b.raw = h THEN [b EXCEPT !.state = st] ELSE b : b \in held}
    /\ lastOp' = Op(name, h, "-", <<>>)
    /\ UNCHANGED <<kind, pool, level, buffers, next, lent, prevLent>>

\* CommandBuffer::begin
begin(h) ==
    /\ Usable(h)
    /\ backend.state[h] = "Initial"
    /\ Transition("CommandBuffer::begin", h, "Recording")

\* CommandBuffer::finish
finish(h) ==
    /\ Usable(h)
    /\ backend.state[h] = "Recording"
    /\ Transition("CommandBuffer::finish", h, "Executable")

\* CommandBuffer::submit
submit(h) ==
    /\ Usable(h)
    /\ backend.state[h] = "Executable"
    /\ Transition("CommandBuffer::submit", h, "Pending")

\* CommandBuffer::complete: the buffer is executable again, or invalid when it
\* was recorded for one submission.
complete(h, st) ==
    /\ Usable(h)
    /\ backend.state[h] = "Pending"
    /\ st \in {"Executable", "Invalid"}
    /\ Transition("CommandBuffer::complete", h, st)

\* CommandBuffer::reset, which only the buffers of an IndividualReset pool have.
buffer_reset(h) ==
    /\ Usable(h)
    /\ ResetOf(h) = "IndividualReset"
    /\ backend.state[h] # "Initial"
    /\ Transition("CommandBuffer::reset", h, "Initial")

\* CommandBuffer::mark_reset: after a reset of the pool the caller marks the
\* CommandBuffer it still holds as reset.
mark_reset(h) ==
    /\ kind = "CommandPool"
    /\ h \in HeldHandles
    /\ ~backend.destroyed
    /\ backend.state[h] = "Initial"
    /\ TypeState(h) # "Initial"
    /\ held' = {IF b.raw = h THEN [b EXCEPT !.state = "Initial"] ELSE b : b \in held}
    /\ lastOp' = Op("CommandBuffer::mark_reset", h, "-", <<>>)
    /\ UNCHANGED <<kind, pool, level, buffers, next, backend, lent, prevLent>>

\* ------------------------------------------------------------ specification

NextPool ==
    \/ \E l \in Levels, count \in 0..MaxCount : allocate_buffers(l, count)
    \/ \E bs \in SUBSET held : free_buffers(bs)
    \/ reset
    \/ dispose
    \/ with_value_capability
    \/ \E u \in QueueTypes : with_capability(u)

NextOwning ==
    \/ \E count \in 0..MaxCount : reserve(count)
    \/ acquire_buffer
    \/ owning_reset
    \/ owning_dispose
    \/ owning_with_value_capability
    \/ \E u \in QueueTypes : owning_with_capability(u)

Init == InitPool \/ InitOwning

Next == NextPool \/ NextOwning

\* A pool of either kind and the calls its owner makes on it.
Spec == Init /\ [][Next]_vars

NextBuffer ==
    \E h \in 1..MaxHandles :
        \/ begin(h)
        \/ finish(h)
        \/ submit(h)
        \/ \E st \in States : complete(h, st)
        \/ buffer_reset(h)
        \/ mark_reset(h)

NextLifecycle ==
    \/ \E l \in Levels, count \in 0..MaxCount : allocate_buffers(l, count)
    \/ \E bs \in SUBSET held : free_buffers(bs)
    \/ reset
    \/ dispose
    \/ \E count \in 0..MaxCount : reserve(count)
    \/ acquire_buffer
    \/ owning_reset
    \/ owning_dispose
    \/ NextBuffer

\* A pool for the General capability: the lifecycle of its buffers does not
\* depend on the capability or on the family.
InitLifecycle ==
    /\ Init
    /\ pool.capability = ValueCapability("General")
    /\ pool.family = 0

\* A pool of either kind, the calls its owner makes on it and the calls the
\* owner makes on the command buffers it holds.
SpecLifecycle == InitLifecycle /\ [][NextLifecycle]_vars

\* ------------------------------------------------------------------ claims

\* The step just taken is a call of the named method.
Called(name) == lastOp'.name = name

\* The calls b2 logs beyond those of b.
NewCalls(b, b2) == SubSeq(b2.calls, Len(b.calls) + 1, Len(b2.calls))

\* The number of handles the allocate calls of cs ask the backend for.
RECURSIVE Requested(_)
Requested(cs) ==
    IF cs = <<>> THEN 0
    ELSE (IF Head(cs).op = "allocate" THEN Head(cs).count ELSE 0) + Requested(Tail(cs))

\* The backend call of one kind that carries no handles.
PlainCall(op) == [op |-> op, count |-> 0, level |-> NoLevel, handles |-> <<>>]

\* The backend call that frees the handles hs.
FreeCall(hs) == [op |-> "free", count |-> Len(hs), level |-> NoLevel, handles |-> hs]

\* The handles stored in a sequence.
Range(hs) == {hs[i] : i \in 1..Len(hs)}

\* C1: after N acquire_buffer calls and a reset, each of the next N
\* acquire_buffer calls (those made while next < N) leaves the number of
\* backend allocate calls as it was.
C1_SecondBatchCallsNoAllocate ==
    [][(Called("OwningCommandPool::acquire_buffer") /\ next < prevLent)
         => CallCount(backend', "allocate") = CallCount(backend, "allocate")]_vars

\* C3: the cursor stays within the store, every slot lent since the latest
\* reset lies below it, and no slot at or above it has been lent since then.
C3_CursorInvariant ==
    /\ 0 <= next /\ next <= Len(buffers)
    /\ \A i \in lent : i < next
    /\ \A i \in 0..(Len(buffers) - 1) : i >= next => i \notin lent

\* C3 witness: after a reset and a new acquisition, with a spare slot left.
C3_Witness ==
    /\ kind = "OwningCommandPool"
    /\ prevLent >= 1
    /\ lent # {}
    /\ next < Len(buffers)

\* C4: when reserve(count) returns, at least count slots lie beyond the cursor,
\* and the call made at most one backend allocate call (and no other call).
C4_ReserveEnsuresUnused ==
    [][Called("OwningCommandPool::reserve")
         => /\ Len(buffers') - next' >= lastOp'.arg
            /\ Len(NewCalls(backend, backend')) <= 1
            /\ \A i \in 1..Len(NewCalls(backend, backend')) :
                   NewCalls(backend, backend')[i].op = "allocate"]_vars

\* C4 witness: a reserve behind a lent slot that had to grow the store.
C4_Witness ==
    /\ lastOp.name = "OwningCommandPool::reserve"
    /\ lastOp.arg >= 1
    /\ next >= 1
    /\ Len(buffers) - next = lastOp.arg

\* C5: reserve never shrinks the store nor removes or reorders a stored handle,
\* and asks the backend for at most max(0, next + count - len) handles.
C5_ReserveMonotonic ==
    [][Called("OwningCommandPool::reserve")
         => /\ Len(buffers') >= Len(buffers)
            /\ SubSeq(buffers', 1, Len(buffers)) = buffers
            /\ Requested(NewCalls(backend, backend'))
                 <= (IF next + lastOp'.arg > Len(buffers)
                     THEN next + lastOp'.arg - Len(buffers) ELSE 0)]_vars

\* C5 witness: a reserve of fewer slots than an earlier reserve left unused,
\* the earlier reserve's allocate being the only backend call so far.
C5_Witness ==
    /\ lastOp.name = "OwningCommandPool::reserve"
    /\ lastOp.arg >= 1
    /\ Len(buffers) - next > lastOp.arg
    /\ Len(backend.calls) = 1

\* C6: a reserve(count) that finds at least count unused slots beyond the
\* cursor makes no backend call.
C6_ReserveCallsOnlyWhenShort ==
    [][(Called("OwningCommandPool::reserve") /\ Len(buffers) - next >= lastOp'.arg)
         => backend'.calls = backend.calls]_vars

\* C7: acquire_buffer does not fail, advances next by one, reads a slot of the
\* store, and returns a buffer over the handle at the old cursor, in state
\* Initial and tagged with the pool's capability, level, reset policy and family.
C7_AcquireReturnsNextSlot ==
    [][Called("OwningCommandPool::acquire_buffer")
         => /\ lastOp'.res # "panic"
            /\ kind' = "OwningCommandPool"
            /\ next' = next + 1
            /\ lastOp'.arg = next
            /\ next < Len(buffers')
            /\ lastOp'.ret = <<[raw |-> buffers'[next + 1],
                                capability |-> pool.capability,
                                state |-> "Initial",
                                level |-> level,
                                reset |-> pool.reset,
                                family |-> pool.family]>>]_vars

\* C7 witness: a second acquisition, made after a reset.
C7_Witness ==
    /\ lastOp.name = "OwningCommandPool::acquire_buffer"
    /\ Len(lastOp.ret) = 1
    /\ next >= 2
    /\ prevLent >= 1

\* C8: reset makes exactly one backend call, a reset of the raw pool, sets next
\* to 0, and leaves the store, the level and the inner pool's tags as they were.
C8_ResetFrame ==
    [][Called("OwningCommandPool::reset")
         => /\ backend'.calls = Append(backend.calls, PlainCall("reset"))
            /\ next' = 0
            /\ buffers' = buffers
            /\ level' = level
            /\ pool' = pool
            /\ kind' = kind]_vars

\* C8 witness: a reset that rewound a cursor over a store of two handles.
C8_Witness ==
    /\ lastOp.name = "OwningCommandPool::reset"
    /\ prevLent >= 1
    /\ Len(buffers) >= 2
    /\ next = 0

\* C9: dispose calls the backend in the order reset, one free of every stored
\* handle (if and only if the store is not empty), destroy; at destroy no stored
\* handle is still unfreed, and no backend call ever follows a destroy.
C9_DisposeOrder ==
    [][/\ Called("OwningCommandPool::dispose")
            => /\ NewCalls(backend, backend')
                    = <<PlainCall("reset")>>
                      \o (IF buffers # <<>> THEN <<FreeCall(buffers)>> ELSE <<>>)
                      \o <<PlainCall("destroy")>>
               /\ Range(buffers) \cap backend'.live = {}
       /\ \A i \in 1..Len(backend'.calls) :
              backend'.calls[i].op = "destroy" => i = Len(backend'.calls)]_vars

\* C9 witness: an OwningCommandPool disposed of with two handles in its store.
C9_Witness ==
    /\ lastOp.name = "OwningCommandPool::dispose"
    /\ Len(buffers) >= 2
    /\ backend.destroyed

\* C10: a with_capability call that takes the failure branch, on either kind
\* of pool, leaves the pool as it was (raw handle, capability, reset policy,
\* family, liveness marker; level, store and cursor for the owning wrapper)
\* and makes no backend call.
C10_FailedNarrowUnchanged ==
    [][((Called("CommandPool::with_capability")
           \/ Called("OwningCommandPool::with_capability"))
        /\ lastOp'.res = "Err")
         => /\ pool' = pool
            /\ level' = level
            /\ buffers' = buffers
            /\ next' = next
            /\ kind' = kind
            /\ backend' = backend]_vars

\* C10 witness: a failed narrow of an OwningCommandPool that has lent a buffer.
C10_Witness ==
    /\ lastOp.name = "OwningCommandPool::with_capability"
    /\ lastOp.res = "Err"
    /\ next >= 1

\* C2 as stated: a CommandPool disposed of while the backend still has one of
\* its buffers unfreed is not destroyed.
C2_DisposeRefusedWhileOutstanding ==
    (lastOp.name = "CommandPool::dispose" /\ backend.live # {}) => ~backend.destroyed

\* C2 as amended: dispose checks nothing; whether or not buffers of the pool
\* are unfreed, its one backend call is the destroy of the raw pool, and the
\* pool is gone afterwards.
C2_DisposeAlwaysDestroys ==
    lastOp.name = "CommandPool::dispose"
        => /\ backend.destroyed
           /\ backend.calls # <<>>
           /\ backend.calls[Len(backend.calls)] = PlainCall("destroy")
           /\ kind = "Disposed"
           /\ ~pool.relevant

\* C2 witness: a pool disposed of after two buffers were allocated and only
\* one of them freed.
C2_Witness ==
    /\ lastOp.name = "CommandPool::dispose"
    /\ CallCount(backend, "free") >= 1
    /\ backend.live # {}
    /\ backend.destroyed

\* The call just made widened a pool that the call before had narrowed from a
\* run-time gfx_hal::QueueType capability.
WidenedAfterNarrow ==
    /\ lastOp.name \in {"CommandPool::with_value_capability",
                        "OwningCommandPool::with_value_capability"}
    /\ lastOp.arg # NoNarrow
    /\ lastOp.arg.from.repr = "QueueType"

\* C11 as stated: a pool of general capability c narrowed to U and widened
\* again has capability c.
C11_RoundTripRestoresOriginal ==
    WidenedAfterNarrow => pool.capability = lastOp.arg.from

\* C11 as amended: the pool narrowed from c to U and widened again has the
\* general capability of U itself, which is c only when U names c's capability.
C11_RoundTripYieldsNarrowed ==
    WidenedAfterNarrow
        => /\ pool.capability = ValueCapability(lastOp.arg.to)
           /\ (pool.capability = lastOp.arg.from) <=> (lastOp.arg.to = lastOp.arg.from.cap)

\* C11 witness: General narrowed to Graphics and widened comes back as Graphics.
C11_Witness ==
    /\ WidenedAfterNarrow
    /\ lastOp.arg = Narrow(ValueCapability("General"), "Graphics")
    /\ pool.capability = ValueCapability("Graphics")

\* C12: allocate_buffers(level, count) makes one backend call, an allocate of
\* count handles at the level, and returns one buffer per handle the backend
\* returned, each in state Initial with the requested level and the pool's
\* capability, reset policy and family; the pool itself is unchanged.
C12_AllocateWrapsWithPoolTags ==
    [][Called("CommandPool::allocate_buffers")
         => LET a == lastOp'.arg
                cs == NewCalls(backend, backend')
                bs == lastOp'.ret
            IN /\ Len(cs) = 1
               /\ cs[1].op = "allocate"
               /\ cs[1].count = a.count
               /\ cs[1].level = RawLevel(a.level)
               /\ Len(bs) = Len(cs[1].handles)
               /\ \A i \in 1..Len(bs) :
                      bs[i] = [raw |-> cs[1].handles[i],
                               capability |-> pool.capability,
                               state |-> "Initial",
                               level |-> a.level,
                               reset |-> pool.reset,
                               family |-> pool.family]
               /\ pool' = pool
               /\ kind' = kind]_vars

\* C12 witness: two secondary buffers allocated from a pool with a marker capability.
C12_Witness ==
    /\ lastOp.name = "CommandPool::allocate_buffers"
    /\ lastOp.arg = [level |-> "SecondaryLevel", count |-> 2]
    /\ Len(lastOp.ret) = 2
    /\ pool.capability.repr = "Marker"

\* C14: with_value_capability and a successful with_capability, on either kind
\* of pool, leave the raw handle, reset policy, family and liveness marker, and
\* the level, store and cursor of the owning wrapper, as they were, and make no
\* backend call: only the capability may differ.
C14_ConversionsChangeOnlyCapability ==
    [][(\/ Called("CommandPool::with_value_capability")
        \/ Called("OwningCommandPool::with_value_capability")
        \/ (/\ \/ Called("CommandPool::with_capability")
               \/ Called("OwningCommandPool::with_capability")
            /\ lastOp'.res = "Ok"))
         => /\ pool'.raw = pool.raw
            /\ pool'.reset = pool.reset
            /\ pool'.family = pool.family
            /\ pool'.relevant = pool.relevant
            /\ level' = level
            /\ buffers' = buffers
            /\ next' = next
            /\ kind' = kind
            /\ held' = held
            /\ backend' = backend]_vars

\* C14 witness: an OwningCommandPool that has lent a buffer, widened to a
\* capability value it did not hold as a value before.
C14_Witness ==
    /\ lastOp.name = "OwningCommandPool::with_value_capability"
    /\ lastOp.arg # NoNarrow
    /\ pool.capability # lastOp.arg.from
    /\ next >= 1
    /\ Len(buffers) >= 2

\* C17: an acquire_buffer call returns a slot, and a raw handle, that no
\* acquire_buffer call has returned since the latest reset (or since
\* from_inner), whatever reserve calls came in between.
C17_NoDoubleLending ==
    [][Called("OwningCommandPool::acquire_buffer")
         => /\ lastOp'.arg \notin lent
            /\ Len(lastOp'.ret) = 1
            /\ \A i \in lent : lastOp'.ret[1].raw # buffers'[i + 1]]_vars

\* C17 witness: the second acquisition of a batch that follows a reset, the
\* first of the batch having returned a slot that the batch before had lent too.
C17_Witness ==
    /\ lastOp.name = "OwningCommandPool::acquire_buffer"
    /\ Cardinality(lent) >= 2
    /\ prevLent >= 1

\* The handles the allocate calls of cs returned, in the order returned.
RECURSIVE Allocated(_)
Allocated(cs) ==
    IF cs = <<>> THEN <<>>
    ELSE (IF Head(cs).op = "allocate" THEN Head(cs).handles ELSE <<>>) \o Allocated(Tail(cs))

\* How many times the free calls of cs were passed the handle h.
RECURSIVE FreedTimes(_, _)
FreedTimes(cs, h) ==
    IF cs = <<>> THEN 0
    ELSE (IF Head(cs).op = "free"
          THEN Cardinality({i \in 1..Len(Head(cs).handles) : Head(cs).handles[i] = h})
          ELSE 0) + FreedTimes(Tail(cs), h)

\* C18: while the OwningCommandPool is in use its store holds exactly the
\* handles the backend returned to its allocate calls, each once and none of
\* them freed; after dispose each of them has been passed to the backend free
\* exactly once and nothing else has.
C18_HandleConservation ==
    /\ kind = "OwningCommandPool"
         => /\ buffers = Allocated(backend.calls)
            /\ \A i, j \in 1..Len(buffers) : buffers[i] = buffers[j] => i = j
            /\ \A i \in 1..Len(buffers) : FreedTimes(backend.calls, buffers[i]) = 0
            /\ backend.live = Range(buffers)
    /\ lastOp.name = "OwningCommandPool::dispose"
         => /\ \A h \in Range(Allocated(backend.calls)) : FreedTimes(backend.calls, h) = 1
            /\ \A h \in 1..backend.fresh : h \in Range(Allocated(backend.calls))
            /\ backend.live = {}

\* C18 witness: an OwningCommandPool disposed of after two allocate calls had
\* each put a handle into its store.
C18_Witness ==
    /\ lastOp.name = "OwningCommandPool::dispose"
    /\ Len(Allocated(backend.calls)) >= 2
    /\ CallCount(backend, "allocate") >= 2
    /\ CallCount(backend, "free") = 1


\* C13: free_buffers takes a buffer exactly when its state is Initial,
\* Executable, Pending or Invalid: every handle it passes to the backend
\* free call belongs to a held buffer in one of these states, none of them is
\* mid-recording, and a held buffer of the pool's own types is refused exactly
\* when it is Recording.
C13_FreeAcceptsResettableOnly ==
    [][/\ Called("CommandPool::free_buffers") =>
            \A h \in Range(LastHandles(backend')) :
                /\ \E b \in held :
                      /\ b.raw = h
                      /\ b.state \in {"Initial", "Executable", "Pending", "Invalid"}
                /\ backend.state[h] # "Recording"
       /\ \A b \in held :
            (/\ kind = "CommandPool"
             /\ Room(1, 0)
             /\ CapabilityType(b.capability) = CapabilityType(pool.capability)
             /\ b.reset = pool.reset)
            => ((ENABLED free_buffers({b}))
                    <=> b.state \in {"Initial", "Executable", "Pending", "Invalid"})
      ]_vars

\* A buffer was freed while the caller holds another one that is Recording.
C13_Witness ==
    /\ lastOp.name = "CommandPool::free_buffers"
    /\ lastOp.arg >= 1
    /\ \E b \in held : b.state = "Recording" /\ backend.state[b.raw] = "Recording"


\* The edges of the lifecycle that are not resets.
ForwardEdges ==
    {<<"Initial", "Recording">>, <<"Recording", "Executable">>,
     <<"Executable", "Pending">>, <<"Pending", "Executable">>,
     <<"Pending", "Invalid">>}

\* The step just taken resets the raw pool.
PoolResetCalled ==
    lastOp'.name \in {"CommandPool::reset", "OwningCommandPool::reset",
                      "OwningCommandPool::dispose"}

\* C15: a buffer's lifecycle state changes only along Initial -> Recording ->
\* Executable -> Pending -> Executable or Invalid, and from any state to
\* Initial by a reset of the pool or, for an IndividualReset buffer only, by
\* a reset of the buffer; every buffer starts Initial. This holds of the state
\* the backend keeps for each handle and of the state the caller's
\* CommandBuffer carries.
C15_LifecycleEdges ==
    [][/\ \A h \in 1..MaxHandles :
            LET o == backend.state[h]
                n == backend'.state[h] IN
            o # n =>
                \/ o = "Unallocated" /\ n = "Initial"
                \/ o \in States /\ n = "Freed"
                \/ <<o, n>> \in ForwardEdges
                \/ /\ o \in States
                   /\ n = "Initial"
                   /\ \/ PoolResetCalled
                      \/ /\ Called("CommandBuffer::reset")
                         /\ ResetOf(h) = "IndividualReset"
       /\ \A b \in held, b2 \in held' :
            (b2.raw = b.raw /\ b2.state # b.state) =>
                \/ <<b.state, b2.state>> \in ForwardEdges
                \/ /\ b2.state = "Initial"
                   /\ \/ /\ Called("CommandBuffer::mark_reset")
                         /\ backend.state[b.raw] = "Initial"
                      \/ /\ Called("CommandBuffer::reset")
                         /\ b.reset = "IndividualReset"
       /\ \A b2 \in held' :
            (\A b \in held : b.raw # b2.raw) =>
                b2.state = "Initial" /\ backend'.state[b2.raw] = "Initial"
      ]_vars

\* A buffer went all the way to Invalid and the pool was then reset.
C15_Witness ==
    /\ lastOp.name = "CommandPool::reset"
    /\ \E b \in held : b.state = "Invalid" /\ backend.state[b.raw] = "Initial"


\* C16: every handle acquire_buffer returns is in backend state Initial when
\* it is returned, whatever the caller did before with the buffers it had
\* borrowed; the stored handles beyond the cursor are all Initial.
C16_AcquiredIsInitial ==
    [][/\ Called("OwningCommandPool::acquire_buffer") =>
            /\ Len(lastOp'.ret) = 1
            /\ backend'.state[lastOp'.ret[1].raw] = "Initial"
            /\ backend'.state[buffers'[next + 1]] = "Initial"
       /\ kind' = "OwningCommandPool" =>
            \A i \in 1..Len(buffers') :
                i > next' => backend'.state[buffers'[i]] = "Initial"
      ]_vars

\* A buffer is acquired after a reset that took back an earlier acquisition.
C16_Witness ==
    /\ lastOp.name = "OwningCommandPool::acquire_buffer"
    /\ Len(lastOp.ret) = 1
    /\ prevLent >= 1
    /\ Cardinality(lent) >= 1
    /\ backend.state[lastOp.ret[1].raw] = "Initial"

====
